---- MODULE Spec2Model ----
(***************************************************************************)
(* Gym management application (app.py, auth.py, db.py, utils.py,           *)
(* models.py): the SQLite tables, the Streamlit session and one action per *)
(* script run (run() with the widget event that triggered it).             *)
(*                                                                         *)
(* The page shown (st.session_state.page) is re-read from the Navigate     *)
(* radio in every run, so it is an input of the run, not state.            *)
(*                                                                         *)
(* Representation.                                                         *)
(*   - A text (name, phone, price field, password) is the sequence of its  *)
(*     characters; None is the one-element sequence <<"None">>.            *)
(*   - An ISO date string YYYY-MM-DD is the triple <<y, m, d>> of its      *)
(*     three fields; parse_iso accepts it only if it names a calendar day. *)
(*   - A bcrypt hash is the pair <<salt, secret>> of the salt and the      *)
(*     (truncated) secret it was computed from.                            *)
(***************************************************************************)
EXTENDS Integers, Sequences, FiniteSets, TLC

VARIABLES
    today,              \* date.today()
    admin_users,        \* table admin_users
    app_settings,       \* table app_settings
    members,            \* table members
    member_seq,         \* AUTOINCREMENT sequence of members
    payments,           \* table payments
    payment_seq,        \* AUTOINCREMENT sequence of payments
    logged_in,          \* st.session_state.logged_in
    username,           \* st.session_state.username
    edit_member_id,     \* st.session_state.edit_member_id
    rerun,              \* st.rerun() was called: the page the script draws again at once
    last,               \* history: what the last script run did
    stored_password,    \* history: the password most recently stored for "admin"
    v_in,               \* history: arguments of the last login(), direct utils call or failed renewal
    v_out               \* history: its result

vars == <<today, admin_users, app_settings, members, member_seq,
          payments, payment_seq, logged_in, username, edit_member_id,
          rerun, last, stored_password, v_in, v_out>>

None == <<"None">>

----------------------------------------------------------------------------
(* Bounds of the model                                                     *)

MaxTicks == 1          \* days the clock advances
MaxMemberId == 3       \* member ids ever assigned
MaxPaymentId == 2      \* a payment is entered or recorded by a renewal while payment_seq is below this
MaxRenewYear == 2025   \* renewals are explored while the end date stays within this year
MaxCalcYear == 2024    \* last year of the run of years whose every day is a start date of calc_end_date

Today0 == <<2024, 1, 30>>

----------------------------------------------------------------------------
(* datetime.date                                                           *)

IsLeap(y) == (y % 4 = 0) /\ ((y % 100 # 0) \/ (y % 400 = 0))

DaysInMonth(y, m) ==
    IF m = 2 THEN (IF IsLeap(y) THEN 29 ELSE 28)
    ELSE IF m \in {4, 6, 9, 11} THEN 30 ELSE 31

DaysBeforeYear(y) ==
    365 * (y - 1) + ((y - 1) \div 4) - ((y - 1) \div 100) + ((y - 1) \div 400)

\* _DAYS_BEFORE_MONTH, plus the leap day after February
DaysBeforeMonth(y, m) ==
    <<0, 31, 59, 90, 120, 151, 181, 212, 243, 273, 304, 334>>[m]
        + (IF m > 2 /\ IsLeap(y) THEN 1 ELSE 0)

\* date(y, m, d) is a calendar day (MINYEAR = 1, MAXYEAR = 9999)
IsDate(s) ==
    /\ Len(s) = 3
    /\ s[1] \in 1..9999
    /\ s[2] \in 1..12
    /\ s[3] \in 1..DaysInMonth(s[1], s[2])

toordinal(dt) == DaysBeforeYear(dt[1]) + DaysBeforeMonth(dt[1], dt[2]) + dt[3]

fromordinal(n) ==
    LET y0 == ((n - 1) * 400) \div 146097 + 1
        y  == CHOOSE c \in {y0 - 1, y0, y0 + 1} :
                  DaysBeforeYear(c) < n /\ n <= DaysBeforeYear(c + 1)
        r  == n - DaysBeforeYear(y)
        m  == CHOOSE c \in 1..12 :
                  DaysBeforeMonth(y, c) < r /\ r <= DaysBeforeMonth(y, c) + DaysInMonth(y, c)
    IN  <<y, m, r - DaysBeforeMonth(y, m)>>

\* date + timedelta(days = k)
AddDays(dt, k) == fromordinal(toordinal(dt) + k)

\* date.replace(day = k)
ReplaceDay(dt, k) == <<dt[1], dt[2], k>>

DateLT(a, b) ==
    \/ a[1] < b[1]
    \/ a[1] = b[1] /\ a[2] < b[2]
    \/ a[1] = b[1] /\ a[2] = b[2] /\ a[3] < b[3]

DateLE(a, b) == a = b \/ DateLT(a, b)

Max(a, b) == IF a >= b THEN a ELSE b
Min(a, b) == IF a <= b THEN a ELSE b

----------------------------------------------------------------------------
(* models.py, utils.py                                                     *)

PlanTypes == {"1 month", "3 months", "6 months", "12 months"}

PLAN_MONTHS(plan_type) ==
    CASE plan_type = "1 month"   -> 1
      [] plan_type = "3 months"  -> 3
      [] plan_type = "6 months"  -> 6
      [] plan_type = "12 months" -> 12
      [] OTHER                   -> 1      \* PLAN_MONTHS.get(plan_type, 1)

\* parse_iso: TRUE iff date.fromisoformat raises
parse_iso_raises(s) == ~IsDate(s)

\* add_months raises ValueError when date(...) leaves MINYEAR..MAXYEAR: the
\* first day of the month after the target month is built before the result
add_months_raises(start, months) ==
    LET y == start[1] + ((start[2] - 1 + months) \div 12)
        m == ((start[2] - 1 + months) % 12) + 1
        next_month == IF m = 12 THEN <<y + 1, 1, 1>> ELSE <<y, m + 1, 1>>
    IN  ~IsDate(next_month)

\* add_months with a fixed 28-day clamp instead of the target month's last day
add_months_clamp28(start, months) ==
    LET y == start[1] + ((start[2] - 1 + months) \div 12)
        m == ((start[2] - 1 + months) % 12) + 1
        day == Min(start[3], 28)
    IN  <<y, m, day>>

add_months(start, months) ==
    LET y == start[1] + ((start[2] - 1 + months) \div 12)
        m == ((start[2] - 1 + months) % 12) + 1
        next_month == IF m = 12 THEN <<y + 1, 1, 1>> ELSE <<y, m + 1, 1>>
        last_day == AddDays(next_month, -1)
        day == Min(start[3], last_day[3])
    IN  <<y, m, day>>

calc_end_date(start_date_iso, plan_type) ==
    add_months(start_date_iso, PLAN_MONTHS(plan_type))

\* calc_end_date raises: parse_iso or add_months does
calc_end_date_raises(start_date_iso, plan_type) ==
    \/ parse_iso_raises(start_date_iso)
    \/ add_months_raises(start_date_iso, PLAN_MONTHS(plan_type))

\* infer_status with the comparison turned round
infer_status_reversed(end_date_iso, now) ==
    IF DateLE(end_date_iso, now) THEN "active" ELSE "expired"

\* infer_status with a strict comparison: the last day counts as expired
infer_status_strict(end_date_iso, now) ==
    IF DateLT(now, end_date_iso) THEN "active" ELSE "expired"

infer_status(end_date_iso, now) ==
    IF DateLE(now, end_date_iso) THEN "active" ELSE "expired"

\* str.strip(): leading and trailing blanks removed
RECURSIVE LStrip(_)
LStrip(s) == IF s # <<>> /\ Head(s) = " " THEN LStrip(Tail(s)) ELSE s

RECURSIVE RStrip(_)
RStrip(s) ==
    IF s # <<>> /\ s[Len(s)] = " " THEN RStrip(SubSeq(s, 1, Len(s) - 1)) ELSE s

Strip(s) == RStrip(LStrip(s))

Digits == {"0", "1", "2", "3", "4", "5", "6", "7", "8", "9"}

DigitVal(c) ==
    CASE c = "0" -> 0 [] c = "1" -> 1 [] c = "2" -> 2 [] c = "3" -> 3 [] c = "4" -> 4
      [] c = "5" -> 5 [] c = "6" -> 6 [] c = "7" -> 7 [] c = "8" -> 8 [] c = "9" -> 9

RECURSIVE DigitsVal(_)
DigitsVal(s) ==
    IF s = <<>> THEN 0 ELSE 10 * DigitsVal(SubSeq(s, 1, Len(s) - 1)) + DigitVal(s[Len(s)])

\* float(x) for a text over digits, sign, blank and letters: blanks are
\* stripped, then an optional sign and at least one digit; anything else,
\* None included, raises.
ParseFloat(x) ==
    IF x = None THEN [ok |-> FALSE, val |-> 0]
    ELSE
      LET t == Strip(x)
          signed == t # <<>> /\ Head(t) \in {"-", "+"}
          body == IF signed THEN Tail(t) ELSE t
          good == body # <<>> /\ \A i \in 1..Len(body) : body[i] \in Digits
      IN  IF ~good THEN [ok |-> FALSE, val |-> 0]
          ELSE [ok |-> TRUE,
                val |-> IF signed /\ Head(t) = "-" THEN 0 - DigitsVal(body) ELSE DigitsVal(body)]

ErrName == "Full name is required."
ErrPhone == "Phone is required."
ErrPrice == "Plan price must be numeric."
ErrOrder == "End date must be after start date."
ErrDates == "Start/end dates must be valid ISO dates (YYYY-MM-DD)."

\* validate_member_inputs with "ed < sd": equal dates pass
validate_member_inputs_lt(full_name, phone, plan_price, start_date, end_date) ==
    IF full_name = None THEN [raised |-> TRUE, errors |-> <<>>]
    ELSE IF phone = None THEN [raised |-> TRUE, errors |-> <<>>]
    ELSE
      LET e1 == IF Strip(full_name) = <<>> THEN <<ErrName>> ELSE <<>>
          e2 == IF Strip(phone) = <<>> THEN <<ErrPhone>> ELSE <<>>
          e3 == IF ~ParseFloat(plan_price).ok THEN <<ErrPrice>> ELSE <<>>
          e4 == IF parse_iso_raises(start_date) \/ parse_iso_raises(end_date)
                THEN <<ErrDates>>
                ELSE IF DateLT(end_date, start_date) THEN <<ErrOrder>> ELSE <<>>
      IN  [raised |-> FALSE, errors |-> e1 \o e2 \o e3 \o e4]

\* validate_member_inputs with each date parsed in its own try block: a
\* malformed end date no longer hides the start date, and a malformed date
\* is reported together with the ordering error
validate_member_inputs_split(full_name, phone, plan_price, start_date, end_date) ==
    IF full_name = None THEN [raised |-> TRUE, errors |-> <<>>]
    ELSE IF phone = None THEN [raised |-> TRUE, errors |-> <<>>]
    ELSE
      LET e1 == IF Strip(full_name) = <<>> THEN <<ErrName>> ELSE <<>>
          e2 == IF Strip(phone) = <<>> THEN <<ErrPhone>> ELSE <<>>
          e3 == IF ~ParseFloat(plan_price).ok THEN <<ErrPrice>> ELSE <<>>
          e4 == IF parse_iso_raises(start_date) \/ parse_iso_raises(end_date)
                THEN <<ErrDates, ErrOrder>>
                ELSE IF DateLE(end_date, start_date) THEN <<ErrOrder>> ELSE <<>>
      IN  [raised |-> FALSE, errors |-> e1 \o e2 \o e3 \o e4]

\* validate_member_inputs: [raised, errors]; None.strip() raises AttributeError
\* outside any try block.
validate_member_inputs(full_name, phone, plan_price, start_date, end_date) ==
    IF full_name = None THEN [raised |-> TRUE, errors |-> <<>>]
    ELSE IF phone = None THEN [raised |-> TRUE, errors |-> <<>>]
    ELSE
      LET e1 == IF Strip(full_name) = <<>> THEN <<ErrName>> ELSE <<>>
          e2 == IF Strip(phone) = <<>> THEN <<ErrPhone>> ELSE <<>>
          e3 == IF ~ParseFloat(plan_price).ok THEN <<ErrPrice>> ELSE <<>>
          e4 == IF parse_iso_raises(start_date) \/ parse_iso_raises(end_date)
                THEN <<ErrDates>>
                ELSE IF DateLE(end_date, start_date) THEN <<ErrOrder>> ELSE <<>>
      IN  [raised |-> FALSE, errors |-> e1 \o e2 \o e3 \o e4]

----------------------------------------------------------------------------
(* auth.py                                                                 *)

BcryptMax == 72

to_bcrypt_secret(password) ==
    IF Len(password) > BcryptMax THEN SubSeq(password, 1, BcryptMax) ELSE password

\* bcrypt.hashpw(secret, salt)
hash_password(password, salt) == <<salt, to_bcrypt_secret(password)>>

\* verify_password without the truncation of the typed password
verify_password_untruncated(password, password_hash) ==
    <<password_hash[1], password>> = password_hash

\* bcrypt.checkpw(secret, stored)
verify_password(password, password_hash) ==
    hash_password(password, password_hash[1]) = password_hash

get_admin_by_username(admins, uname) == {a \in admins : a.username = uname}

login(admins, uname, password) ==
    LET admin == get_admin_by_username(admins, uname)
    IN  IF admin = {} THEN FALSE
        ELSE verify_password(password, (CHOOSE a \in admin : TRUE).password_hash)

----------------------------------------------------------------------------
(* db.py                                                                   *)

ForceKey == "force_password_change"

get_setting(settings, key) ==
    IF \E s \in settings : s.key = key
    THEN (CHOOSE s \in settings : s.key = key).value
    ELSE "absent"

set_setting(settings, key, value) ==
    {s \in settings : s.key # key} \cup {[key |-> key, value |-> value]}

\* init_db: the admin_users table after the call
init_db_admins(admins, default_admin_hash) ==
    IF admins = {}
    THEN {[id |-> 1, username |-> <<"a", "d", "m", "i", "n">>,
           password_hash |-> default_admin_hash]}
    ELSE admins

\* init_db setting the flag without looking for an existing admin
init_db_settings_reflag(admins, settings) ==
    set_setting(settings, ForceKey, "1")

\* init_db: the app_settings table after the call
init_db_settings(admins, settings) ==
    IF admins = {}
    THEN set_setting(settings, ForceKey, "1")
    ELSE IF get_setting(settings, ForceKey) = "absent"
         THEN set_setting(settings, ForceKey, "0")
         ELSE settings

is_force_password_change(settings) == get_setting(settings, ForceKey) = "1"

clear_force_password_change(settings) == set_setting(settings, ForceKey, "0")

\* auth.change_password: UPDATE admin_users ... WHERE username = ?
change_password_admins(admins, uname, new_hash) ==
    {IF a.username = uname THEN [a EXCEPT !.password_hash = new_hash] ELSE a : a \in admins}

\* DELETE FROM members WHERE id = ?
delete_member(ms, id) == {m \in ms : m.id # id}

\* the cascade taking every payment row, not only the deleted member's
delete_member_payments_all(ps, id, fk) ==
    IF fk THEN {} ELSE ps

\* payments left by DELETE FROM members: ON DELETE CASCADE acts only when the
\* connection enforces foreign keys
delete_member_payments(ps, id, fk) ==
    IF fk THEN {p \in ps : p.member_id # id} ELSE ps

----------------------------------------------------------------------------
(* app.py: helpers                                                         *)

Admin123 == <<"a", "d", "m", "i", "n", "1", "2", "3">>

MinPasswordLen == 6

refresh_member_statuses(ms, now) ==
    {[m EXCEPT !.status = infer_status(m.end_date, now)] : m \in ms}

\* default_start with "current_end > today": a plan ending today counts as over
default_start_strict(m, now) ==
    IF DateLT(now, m.end_date) THEN AddDays(m.end_date, 1) ELSE now

\* renewals_page: default of the start-date widget
default_start(m, now) ==
    IF DateLE(now, m.end_date) THEN AddDays(m.end_date, 1) ELSE now

Pages == {"Dashboard", "Members", "Payments", "Renewals", "Reports", "Reminders", "Settings"}

\* every page but Settings starts with refresh_member_statuses()
render_page(ms, p, now) ==
    IF p = "Settings" THEN ms ELSE refresh_member_statuses(ms, now)

\* text.strip() or None
strip_or_none(t) == IF Strip(t) = <<>> THEN None ELSE Strip(t)

\* utils.insert_sample_data: the three member rows, with ids seq+1..seq+3
sample_members(seq, now) ==
    LET join == now
        m1_start == ReplaceDay(now, Max(1, now[3] - 25))
        m1_end == AddDays(now, 5)
        m2_start == ReplaceDay(now, Max(1, now[3] - 10))
        m2_end == calc_end_date(m2_start, "3 months")
        m3_start == AddDays(now, -60)
        m3_end == AddDays(now, -2)
    IN  { [id |-> seq + 1, full_name |-> <<"Ahmed Hassan">>, phone |-> <<"01000000001">>,
           national_id |-> <<"12345678901234">>, join_date |-> join,
           plan_type |-> "1 month", plan_price |-> 300,
           start_date |-> m1_start, end_date |-> m1_end,
           status |-> infer_status(m1_end, now)],
          [id |-> seq + 2, full_name |-> <<"Mona Ali">>, phone |-> <<"01000000002">>,
           national_id |-> None, join_date |-> join,
           plan_type |-> "3 months", plan_price |-> 800,
           start_date |-> m2_start, end_date |-> m2_end,
           status |-> infer_status(m2_end, now)],
          [id |-> seq + 3, full_name |-> <<"Omar Samy">>, phone |-> <<"01000000003">>,
           national_id |-> None, join_date |-> join,
           plan_type |-> "1 month", plan_price |-> 300,
           start_date |-> m3_start, end_date |-> m3_end,
           status |-> infer_status(m3_end, now)] }

\* utils.insert_sample_data: the three payment rows
sample_payments(mseq, pseq, now) ==
    { [id |-> pseq + 1, member_id |-> mseq + 1, amount |-> 300, date |-> now,
       method |-> "cash", notes |-> <<"Sample payment">>],
      [id |-> pseq + 2, member_id |-> mseq + 2, amount |-> 800, date |-> now,
       method |-> "card", notes |-> <<"3-month plan paid">>],
      [id |-> pseq + 3, member_id |-> mseq + 3, amount |-> 300, date |-> AddDays(now, -60),
       method |-> "transfer", notes |-> <<"Old payment">>] }

----------------------------------------------------------------------------
(* Widget inputs explored                                                  *)

\* usernames typed in the full application, and in the account-only runs
UsernameInputs == {<<" ", "a", "d", "m", "i", "n">>}
AuthUsernameInputs == {<<"a", "d", "m", "i", "n">>, <<" ", "a", "d", "m", "i", "n">>, <<"b", "o", "b">>}

Abc == <<"a", "b", "c">>
LongA == [i \in 1..(BcryptMax + 1) |-> IF i > BcryptMax THEN "a" ELSE "x"]
LongB == [i \in 1..(BcryptMax + 1) |-> IF i > BcryptMax THEN "b" ELSE "x"]

\* passwords typed in the full application, and in the account-only runs
PasswordInputs == {Admin123, Abc}
AuthPasswordInputs == {Admin123, Abc, LongA, LongB}

\* bcrypt.gensalt()
Salts == {1}
AuthSalts == {1, 2}

\* member ids the user picks in the Member select boxes
SelectIds == {1}

PriceInputs == {<<"3", "0", "0">>, <<"0">>, <<"-", "5">>, <<"x">>}
MethodInputs == {"cash"}
NotesInputs == {<<>>}

Ann == <<"A", "n", "n">>
Phone01 == <<"0", "1">>

\* dates picked in the date widgets
PastDate == AddDays(Today0, -60)

\* member_form(): the ways the form is filled in
MemberForms ==
    { [full_name |-> <<" ", "A", "n", "n">>, phone |-> Phone01, plan_type |-> "1 month",
       plan_price |-> <<"-", "5">>,
       start_date |-> PastDate, end_date |-> Today0, status |-> "expired"],
      [full_name |-> <<" ">>, phone |-> <<>>, plan_type |-> "1 month",
       plan_price |-> <<"3", "0", "0">>,
       start_date |-> Today0, end_date |-> calc_end_date(Today0, "1 month"), status |-> "active"],
      [full_name |-> Ann, phone |-> Phone01, plan_type |-> "1 month",
       plan_price |-> <<"x">>,
       start_date |-> Today0, end_date |-> calc_end_date(Today0, "1 month"), status |-> "active"],
      [full_name |-> Ann, phone |-> Phone01, plan_type |-> "1 month",
       plan_price |-> <<"3", "0", "0">>,
       start_date |-> Today0, end_date |-> Today0, status |-> "active"] }

\* renewals_page(): the ways the form is filled in for member m
RenewForms(m, now) ==
    { [plan_type |-> "12 months", plan_price |-> <<"3", "0", "0">>,
       start_date |-> default_start(m, now), record_payment |-> TRUE],
      [plan_type |-> "1 month", plan_price |-> <<"0">>,
       start_date |-> PastDate, record_payment |-> TRUE],
      [plan_type |-> "1 month", plan_price |-> <<"x">>,
       start_date |-> default_start(m, now), record_payment |-> FALSE] }

\* pages opened without pressing a button (every page but Settings draws
\* the same way: a status refresh and no write)
NavInputs == {"Dashboard", "Settings"}

----------------------------------------------------------------------------
(* State                                                                   *)

Init ==
    /\ today = Today0
    /\ admin_users = {}
    /\ app_settings = {}
    /\ members = {}
    /\ member_seq = 0
    /\ payments = {}
    /\ payment_seq = 0
    /\ logged_in = FALSE
    /\ username = None
    /\ edit_member_id = 0
    /\ rerun = "none"
    /\ last = [op |-> "start", ok |-> TRUE, id |-> 0]
    /\ stored_password = None
    /\ v_in = <<>>
    /\ v_out = <<>>

\* init_once(): db.init_db(auth.hash_password("admin123"))
init_once(salt) ==
    /\ admin_users' = init_db_admins(admin_users, hash_password(Admin123, salt))
    /\ app_settings' = init_db_settings(admin_users, app_settings)
    /\ stored_password' = IF admin_users = {} THEN Admin123 ELSE stored_password

\* run() without the is_force_password_change() branch
MainApp_ungated == logged_in

\* run(): the script reaches main_app()
MainApp ==
    /\ logged_in
    /\ ~is_force_password_change(init_db_settings(admin_users, app_settings))

\* run(): the script reaches force_change_password_screen()
ForceScreen ==
    /\ logged_in
    /\ is_force_password_change(init_db_settings(admin_users, app_settings))

\* st.button without disabled=
button_enabled(disabled) == TRUE

\* st.button(label, disabled = d) pressed by the user
button(disabled) == ~disabled

Row(ms, id) == CHOOSE m \in ms : m.id = id

\* last.op names the run; last.ok: the login matched, the new password was
\* accepted, validate_member_inputs returned no error or the amount was
\* accepted; last.id: the member row written.

\* A script run without a button event, the Navigate radio on page p: the
\* first run of a session, a change of page, or the run st.rerun() starts
Run(p, salts) ==
    /\ rerun \in {"none", "any", p}
    /\ \E salt \in salts : init_once(salt)
    /\ members' = IF MainApp THEN render_page(members, p, today) ELSE members
    /\ rerun' = "none"
    /\ last' = [op |-> IF ~logged_in THEN "login_screen"
                       ELSE IF ForceScreen THEN "force_screen"
                       ELSE IF p = "Settings" THEN "settings" ELSE "render",
                ok |-> TRUE, id |-> 0]
    /\ UNCHANGED <<today, member_seq, payments, payment_seq,
                   logged_in, username, edit_member_id, v_in, v_out>>

\* login_screen(): the Login button
LoginClick(uname, password, salts) ==
    /\ rerun = "none"
    /\ ~logged_in
    /\ \E salt \in salts : init_once(salt)
    /\ LET ok == login(admin_users', Strip(uname), password)
       IN  /\ logged_in' = ok
           /\ username' = IF ok THEN Strip(uname) ELSE username
           /\ rerun' = IF ok THEN "any" ELSE "none"
           /\ last' = [op |-> "login", ok |-> ok, id |-> 0]
           /\ v_in' = <<Strip(uname), password>>
           /\ v_out' = <<ok>>
    /\ UNCHANGED <<today, members, member_seq, payments, payment_seq,
                   edit_member_id>>

\* force_change_password_screen(): the Update password button
ForceChangeClick(new1, new2, salt) ==
    /\ rerun = "none"
    /\ ForceScreen
    /\ LET ok == ~(Len(new1) < MinPasswordLen) /\ ~(new1 # new2)
           admins1 == init_db_admins(admin_users, hash_password(Admin123, salt))
           settings1 == init_db_settings(admin_users, app_settings)
       IN  /\ admin_users' = IF ok THEN change_password_admins(admins1, username,
                                                               hash_password(new1, salt))
                             ELSE admins1
           /\ app_settings' = IF ok THEN clear_force_password_change(settings1)
                              ELSE settings1
           /\ rerun' = IF ok THEN "any" ELSE "none"
           /\ stored_password' = IF ok THEN new1
                                ELSE IF admin_users = {} THEN Admin123 ELSE stored_password
           /\ last' = [op |-> "force_change", ok |-> ok, id |-> 0]
    /\ UNCHANGED <<today, members, member_seq, payments, payment_seq,
                   logged_in, username, edit_member_id, v_in, v_out>>

\* main_app(): the Logout button; st.rerun() ends the run before the page is drawn
LogoutClick(salts) ==
    /\ rerun = "none"
    /\ MainApp
    /\ \E salt \in salts : init_once(salt)
    /\ logged_in' = FALSE
    /\ username' = None
    /\ rerun' = "any"
    /\ last' = [op |-> "logout", ok |-> TRUE, id |-> 0]
    /\ UNCHANGED <<today, members, member_seq,
                   payments, payment_seq, edit_member_id, v_in, v_out>>

InitOnce == \E salt \in Salts : init_once(salt)

\* members_page(): the Edit button of the selected member
EditClick(id) ==
    /\ rerun = "none"
    /\ MainApp
    /\ InitOnce
    /\ id \in {m.id : m \in members}
    /\ members' = refresh_member_statuses(members, today)
    /\ edit_member_id' = id
    /\ rerun' = "Members"
    /\ last' = [op |-> "edit", ok |-> TRUE, id |-> id]
    /\ UNCHANGED <<today, member_seq, payments,
                   payment_seq, logged_in, username, v_in, v_out>>

\* members_page(): Cancel edit
CancelEditClick ==
    /\ rerun = "none"
    /\ MainApp
    /\ InitOnce
    /\ edit_member_id # 0
    /\ members' = refresh_member_statuses(members, today)
    /\ edit_member_id' = 0
    /\ rerun' = "Members"
    /\ last' = [op |-> "cancel_edit", ok |-> TRUE, id |-> 0]
    /\ UNCHANGED <<today, member_seq, payments,
                   payment_seq, logged_in, username, v_in, v_out>>

\* members_page(): Confirm delete + Delete.  fk: whether the connection that
\* get_conn() opens for the DELETE enforces foreign keys; get_conn() never
\* issues PRAGMA foreign_keys, so that is the sqlite3 library's default
DeleteClick(id, fk) ==
    /\ rerun = "none"
    /\ MainApp
    /\ InitOnce
    /\ id \in {m.id : m \in members}
    /\ members' = delete_member(refresh_member_statuses(members, today), id)
    /\ payments' = delete_member_payments(payments, id, fk)
    /\ rerun' = "Members"
    /\ last' = [op |-> "delete", ok |-> TRUE, id |-> id]
    /\ UNCHANGED <<today, member_seq,
                   payment_seq, logged_in, username, edit_member_id, v_in, v_out>>

\* member_form(): a run of the Members page with the form filled in and Save
\* pressed.  Save is disabled while validate_member_inputs reports errors.
MemberSave(full_name, phone, national_id, join_date, plan_type, plan_price, start_date, end_date, status) ==
    /\ rerun = "none"
    /\ MainApp
    /\ InitOnce
    /\ LET ms1 == refresh_member_statuses(members, today)
           editing == edit_member_id # 0
           v == validate_member_inputs(full_name, phone, plan_price, start_date, end_date)
           submitted == button(v.errors # <<>>)
           id == IF editing THEN edit_member_id ELSE member_seq + 1
           row == [id |-> id,
                   full_name |-> Strip(full_name),
                   phone |-> Strip(phone),
                   national_id |-> strip_or_none(national_id),
                   join_date |-> join_date,
                   plan_type |-> plan_type,
                   plan_price |-> ParseFloat(plan_price).val,
                   start_date |-> start_date,
                   end_date |-> end_date,
                   status |-> status]
       IN  /\ editing => \E m \in ms1 : m.id = edit_member_id
           /\ ~editing => member_seq < MaxMemberId
           /\ members' = IF submitted THEN {m \in ms1 : m.id # id} \cup {row} ELSE ms1
           /\ member_seq' = IF submitted /\ ~editing THEN member_seq + 1 ELSE member_seq
           /\ rerun' = IF submitted THEN "Members" ELSE "none"
           /\ last' = [op |-> "member_save", ok |-> v.errors = <<>>,
                       id |-> IF submitted THEN id ELSE 0]
    /\ UNCHANGED <<today, payments, payment_seq, logged_in, username,
                   edit_member_id, v_in, v_out>>

\* payments_page(): Record payment
RecordPayment(member_id, amount, method, notes) ==
    /\ rerun = "none"
    /\ MainApp
    /\ InitOnce
    /\ member_id \in {m.id : m \in members}
    /\ payment_seq < MaxPaymentId
    /\ LET amt == ParseFloat(amount)
           ok == amt.ok /\ ~(amt.val <= 0)
       IN  /\ payments' = IF ok
                          THEN payments \cup {[id |-> payment_seq + 1, member_id |-> member_id,
                                               amount |-> amt.val, date |-> today,
                                               method |-> method, notes |-> strip_or_none(notes)]}
                          ELSE payments
           /\ payment_seq' = IF ok THEN payment_seq + 1 ELSE payment_seq
           /\ rerun' = IF ok THEN "Payments" ELSE "none"
           /\ last' = [op |-> "payment", ok |-> ok, id |-> IF ok THEN member_id ELSE 0]
    /\ members' = refresh_member_statuses(members, today)
    /\ UNCHANGED <<today, member_seq, logged_in, username,
                   edit_member_id, v_in, v_out>>

\* renewals_page(): the two statements of a renewal, each its own committed
\* db.execute, UPDATE members first and INSERT INTO payments second.  fault
\* names the statement whose db.execute raises ("none": neither); the
\* exception ends the run, so nothing after it is executed.
renew_statements_payment_first(fault, record_payment) ==
    [member  |-> fault = "none",
     payment |-> record_payment /\ fault # "insert"]

renew_statements(fault, record_payment) ==
    [member  |-> fault # "update",
     payment |-> record_payment /\ fault = "none"]

Faults == {"none", "update", "insert"}

\* renewals_page(): Renew
Renew(member_id, plan_type, plan_price, start_date, record_payment, pay_method, pay_notes, fault) ==
    /\ rerun = "none"
    /\ MainApp
    /\ InitOnce
    /\ member_id \in {m.id : m \in members}
    /\ record_payment => payment_seq < MaxPaymentId
    /\ fault = "insert" => record_payment
    /\ LET ms1 == refresh_member_statuses(members, today)
           m == Row(ms1, member_id)
           end_date == calc_end_date(start_date, plan_type)
           v == validate_member_inputs(m.full_name, m.phone, plan_price, start_date, end_date)
           ok == v.errors = <<>>
           price == ParseFloat(plan_price).val
           status == infer_status(end_date, today)
           row == [m EXCEPT !.plan_type = plan_type, !.plan_price = price,
                            !.start_date = start_date, !.end_date = end_date,
                            !.status = status]
           done == renew_statements(fault, record_payment)
       IN  /\ end_date[1] <= MaxRenewYear
           /\ ~ok => fault = "none"
           /\ members' = IF ok /\ done.member THEN (ms1 \ {m}) \cup {row} ELSE ms1
           /\ payments' = IF ok /\ done.payment
                          THEN payments \cup {[id |-> payment_seq + 1, member_id |-> member_id,
                                               amount |-> price, date |-> today,
                                               method |-> pay_method,
                                               notes |-> strip_or_none(pay_notes)]}
                          ELSE payments
           /\ payment_seq' = IF ok /\ done.payment THEN payment_seq + 1 ELSE payment_seq
           /\ rerun' = IF ok /\ fault = "none" THEN "Renewals" ELSE "none"
           /\ last' = [op |-> IF fault = "none" THEN "renew" ELSE "renew_fault",
                       ok |-> ok,
                       id |-> IF ok /\ done.member THEN member_id ELSE 0]
           /\ v_in' = IF fault = "none" THEN v_in
                      ELSE <<member_id, plan_type, price, start_date, fault>>
    /\ UNCHANGED <<today, member_seq, logged_in, username,
                   edit_member_id, v_out>>

\* settings_page(): Update password
ChangePasswordClick(p1, p2, salt) ==
    /\ rerun = "none"
    /\ MainApp
    /\ LET ok == ~(Len(p1) < MinPasswordLen) /\ ~(p1 # p2)
           admins1 == init_db_admins(admin_users, hash_password(Admin123, salt))
           settings1 == init_db_settings(admin_users, app_settings)
       IN  /\ admin_users' = IF ok THEN change_password_admins(admins1, username,
                                                               hash_password(p1, salt))
                             ELSE admins1
           /\ app_settings' = IF ok THEN clear_force_password_change(settings1)
                              ELSE settings1
           /\ stored_password' = IF ok THEN p1
                                ELSE IF admin_users = {} THEN Admin123 ELSE stored_password
           /\ last' = [op |-> "change_password", ok |-> ok, id |-> 0]
    /\ UNCHANGED <<today, members, member_seq, payments, payment_seq,
                   logged_in, username, edit_member_id, rerun, v_in, v_out>>

\* settings_page(): Insert sample data
InsertSampleData ==
    /\ rerun = "none"
    /\ MainApp
    /\ InitOnce
    /\ member_seq + 3 <= MaxMemberId
    /\ members' = members \cup sample_members(member_seq, today)
    /\ member_seq' = member_seq + 3
    /\ payments' = payments \cup sample_payments(member_seq, payment_seq, today)
    /\ payment_seq' = payment_seq + 3
    /\ rerun' = "Settings"
    /\ last' = [op |-> "sample", ok |-> TRUE, id |-> 0]
    /\ UNCHANGED <<today, logged_in, username, edit_member_id,
                   v_in, v_out>>

\* midnight passes (a rerun follows its st.rerun() at once)
Tick ==
    /\ rerun = "none"
    /\ toordinal(today) - toordinal(Today0) < MaxTicks
    /\ today' = AddDays(today, 1)
    /\ last' = [op |-> "tick", ok |-> TRUE, id |-> 0]
    /\ UNCHANGED <<admin_users, app_settings, members, member_seq, payments,
                   payment_seq, logged_in, username, edit_member_id, rerun,
                   stored_password, v_in, v_out>>

\* The whole application.  The administrator signs in with the stored
\* password here; rejected logins and the other password changes are the
\* subject of SpecAuth below.
Next ==
    \/ \E p \in NavInputs \cup {rerun} : Run(p, Salts)
    \/ \E u \in UsernameInputs : LoginClick(u, Admin123, Salts)
    \/ \E p1 \in PasswordInputs, p2 \in PasswordInputs, s \in Salts : ForceChangeClick(p1, p2, s)
    \/ LogoutClick(Salts)
    \/ \E id \in SelectIds : EditClick(id)
    \/ CancelEditClick
    \/ \E id \in SelectIds, fk \in BOOLEAN : DeleteClick(id, fk)
    \/ \E f \in MemberForms :
          MemberSave(f.full_name, f.phone, <<>>, Today0, f.plan_type, f.plan_price,
                     f.start_date, f.end_date, f.status)
    \/ \E id \in SelectIds, a \in PriceInputs, me \in MethodInputs, no \in NotesInputs :
          RecordPayment(id, a, me, no)
    \/ \E id \in SelectIds \cap {m.id : m \in members}, me \in MethodInputs, no \in NotesInputs :
          \E f \in RenewForms(Row(refresh_member_statuses(members, today), id), today) :
              Renew(id, f.plan_type, f.plan_price, f.start_date, f.record_payment, me, no, "none")
    \/ \E s \in Salts : ChangePasswordClick(Admin123, Admin123, s)
    \/ InsertSampleData
    \/ Tick

Spec == Init /\ [][Next]_vars

----------------------------------------------------------------------------
(* The account alone: login, forced change, password change, logout        *)

NextAuth ==
    \/ \E p \in NavInputs \cup {rerun} : Run(p, AuthSalts)
    \/ \E u \in AuthUsernameInputs, p \in AuthPasswordInputs : LoginClick(u, p, AuthSalts)
    \/ \E p1 \in AuthPasswordInputs, p2 \in AuthPasswordInputs, s \in AuthSalts :
          ForceChangeClick(p1, p2, s)
    \/ LogoutClick(AuthSalts)
    \/ \E p1 \in AuthPasswordInputs, p2 \in AuthPasswordInputs, s \in AuthSalts :
          ChangePasswordClick(p1, p2, s)

SpecAuth == Init /\ [][NextAuth]_vars

----------------------------------------------------------------------------
(* Direct calls of utils.validate_member_inputs                            *)

ValidateNames == {<<"J", "a", "n", "e">>, <<" ">>, None}
ValidatePhones == {<<"0", "1">>, <<>>, None}
ValidatePrices == {<<"3", "0", "0">>, <<"-", "5">>, <<"x">>, None}
ValidateDates == {<<2024, 5, 10>>, <<2024, 5, 11>>, <<2024, 2, 30>>, <<2023, 13, 1>>, None}

InitValidate ==
    /\ today = Today0
    /\ admin_users = {}
    /\ app_settings = {}
    /\ members = {}
    /\ member_seq = 0
    /\ payments = {}
    /\ payment_seq = 0
    /\ logged_in = FALSE
    /\ username = None
    /\ edit_member_id = 0
    /\ rerun = "none"
    /\ last = [op |-> "start", ok |-> TRUE, id |-> 0]
    /\ stored_password = None
    /\ v_in \in ValidateNames \X ValidatePhones \X ValidatePrices \X ValidateDates \X ValidateDates
    /\ v_out = <<>>

Validate ==
    /\ v_out = <<>>
    /\ v_out' = <<validate_member_inputs(v_in[1], v_in[2], v_in[3], v_in[4], v_in[5])>>
    /\ last' = [op |-> "validate", ok |-> TRUE, id |-> 0]
    /\ UNCHANGED <<today, admin_users, app_settings, members, member_seq,
                   payments, payment_seq, logged_in, username, edit_member_id,
                   rerun, stored_password, v_in>>

NextValidate == Validate

SpecValidate == InitValidate /\ [][NextValidate]_vars

----------------------------------------------------------------------------
(* Renewals whose database statements may fail                             *)

NextFault ==
    \/ \E p \in NavInputs \cup {rerun} : Run(p, Salts)
    \/ \E u \in UsernameInputs : LoginClick(u, Admin123, Salts)
    \/ \E s \in Salts : ForceChangeClick(Admin123, Admin123, s)
    \/ \E f \in MemberForms :
          MemberSave(f.full_name, f.phone, <<>>, Today0, f.plan_type, f.plan_price,
                     f.start_date, f.end_date, f.status)
    \/ \E id \in SelectIds \cap {m.id : m \in members}, me \in MethodInputs, no \in NotesInputs :
          \E f \in RenewForms(Row(refresh_member_statuses(members, today), id), today) :
              \E fault \in Faults :
                  Renew(id, f.plan_type, f.plan_price, f.start_date, f.record_payment, me, no, fault)

SpecFault == Init /\ [][NextFault]_vars

----------------------------------------------------------------------------
(* The date functions alone: calc_end_date and the renewal default start   *)

DatesOf(years) ==
    {dt \in years \X (1..12) \X (1..31) : IsDate(dt)}

\* start dates given to calc_end_date: every day of a run of years with a
\* leap year, of a leap and a non-leap century year, and of MAXYEAR
CalcYears == {1900, 2000, 9999} \cup (2023..MaxCalcYear)
CalcPlans == PlanTypes \cup {"2 months"}

\* renewals_page: the member's end date and the day the page is drawn
DefaultStartEnds == DatesOf(2023..MaxCalcYear)
DefaultStartTodays == {Today0, <<2023, 12, 31>>, <<2024, 2, 28>>}

InitDates ==
    /\ today = Today0
    /\ admin_users = {}
    /\ app_settings = {}
    /\ members = {}
    /\ member_seq = 0
    /\ payments = {}
    /\ payment_seq = 0
    /\ logged_in = FALSE
    /\ username = None
    /\ edit_member_id = 0
    /\ rerun = "none"
    /\ last = [op |-> "start", ok |-> TRUE, id |-> 0]
    /\ stored_password = None
    /\ \/ v_in \in {"calc_end_date"} \X DatesOf(CalcYears) \X CalcPlans
       \/ v_in \in {"default_start"} \X DefaultStartEnds \X DefaultStartTodays
    /\ v_out = <<>>

\* a call of utils.calc_end_date(start_date, plan_type)
CalcEndDate ==
    /\ v_out = <<>>
    /\ v_in[1] = "calc_end_date"
    /\ v_out' = IF calc_end_date_raises(v_in[2], v_in[3])
                THEN <<[raised |-> TRUE, value |-> <<>>]>>
                ELSE <<[raised |-> FALSE, value |-> calc_end_date(v_in[2], v_in[3])]>>
    /\ last' = [op |-> "calc_end_date", ok |-> TRUE, id |-> 0]
    /\ UNCHANGED <<today, admin_users, app_settings, members, member_seq,
                   payments, payment_seq, logged_in, username, edit_member_id,
                   rerun, stored_password, v_in>>

\* renewals_page() drawing the start-date widget of a member
DefaultStart ==
    /\ v_out = <<>>
    /\ v_in[1] = "default_start"
    /\ v_out' = <<[raised |-> FALSE, value |-> default_start([end_date |-> v_in[2]], v_in[3])]>>
    /\ last' = [op |-> "default_start", ok |-> TRUE, id |-> 0]
    /\ UNCHANGED <<today, admin_users, app_settings, members, member_seq,
                   payments, payment_seq, logged_in, username, edit_member_id,
                   rerun, stored_password, v_in>>

NextDates ==
    \/ CalcEndDate
    \/ DefaultStart

SpecDates == InitDates /\ [][NextDates]_vars

----------------------------------------------------------------------------
(* Properties                                                              *)

MemberIds == {m.id : m \in members}

\* C1: every payment row's member_id refers to a member row that still
\* exists; deleting a member leaves no orphan payment.
NoOrphanPayments == \A p \in payments : p.member_id \in MemberIds

\* C2: every payment row has amount > 0, whether entered on the Payments
\* page or recorded by a renewal.
PaymentAmountPositive == \A p \in payments : p.amount > 0

\* C3 as stated: every successful renewal leaves the member active, whatever
\* start date was submitted.
RenewalLeavesActive ==
    (last.op = "renew" /\ last.ok) => Row(members, last.id).status = "active"

\* C3 as amended: a successful renewal leaves the member active exactly when
\* the new end date is today or later, and expired when it is already past;
\* a renewal whose start date is today or later leaves the member active.
RenewalStatusFollowsEndDate ==
    (last.op = "renew" /\ last.ok) =>
        LET m == Row(members, last.id)
        IN  /\ m.status = "active" <=> ~DateLT(m.end_date, today)
            /\ m.status = "expired" <=> DateLT(m.end_date, today)
            /\ ~DateLT(m.start_date, today) => m.status = "active"

RenewalActiveReached ==
    /\ last.op = "renew" /\ last.ok
    /\ Row(members, last.id).status = "active"
    /\ Row(members, last.id).plan_type = "12 months"

\* C4: every member row has end_date > start_date.
EndAfterStart == \A m \in members : DateLT(m.start_date, m.end_date)

MemberSavedReached ==
    /\ last.op = "member_save" /\ last.ok
    /\ last.id \in MemberIds
    /\ Cardinality(members) >= 2

StatusMatchesEndDate(m) ==
    m.status = IF m.end_date = today \/ DateLT(today, m.end_date) THEN "active" ELSE "expired"

\* C5: immediately after a status-refresh pass every member is active iff
\* its end_date >= today and expired otherwise, whatever status was saved by
\* hand and however many days passed; a second refresh on the same day
\* changes no row.
RefreshSetsStatus ==
    /\ [](last.op = "render" => \A m \in members : StatusMatchesEndDate(m))
    /\ [][(last.op = "render" /\ last'.op = "render") => members' = members]_vars

RefreshExpiredReached ==
    /\ last.op = "render"
    /\ today # Today0
    /\ \E m \in members : m.end_date = Today0 /\ m.status = "expired"

\* C6: bootstrap creates the default admin and sets the forced-change flag
\* when no admin exists, and until the first successful change_password
\* every run shows only the login screen or the forced password-change
\* screen, so no member or payment is written while the flag is set.
ForcedChangeGate ==
    /\ admin_users = {} => (app_settings = {} /\ last.op \in {"start", "tick"})
    /\ last.op \notin {"start", "tick"} => Cardinality(admin_users) = 1
    /\ is_force_password_change(app_settings) =>
          /\ members = {} /\ payments = {}
          /\ member_seq = 0 /\ payment_seq = 0
          /\ last.op \in {"login_screen", "login", "force_screen", "force_change", "tick"}
          /\ \A a \in admin_users : a.password_hash[2] = Admin123

ForcedScreenReached ==
    /\ is_force_password_change(app_settings)
    /\ logged_in
    /\ last.op = "force_screen"

Prefix(password) == SubSeq(password, 1, IF Len(password) > 72 THEN 72 ELSE Len(password))

\* C7 as stated: login(username, password) returns true iff an admin row
\* with that username exists and the password is the one most recently
\* stored for it.
LoginIffStoredPassword ==
    last.op = "login" =>
        (v_out[1] <=> ((\E a \in admin_users : a.username = v_in[1])
                       /\ v_in[2] = stored_password))

\* C7 as amended: login returns true iff an admin row with that username
\* exists and the first 72 bytes of the password equal the first 72 bytes of
\* the password most recently stored for it; for an unknown username it
\* returns false; login changes no stored state.
LoginIffStoredPrefix ==
    /\ [](last.op = "login" =>
            /\ v_out[1] <=> ((\E a \in admin_users : a.username = v_in[1])
                             /\ Prefix(v_in[2]) = Prefix(stored_password))
            /\ v_out[1] = last.ok
            /\ v_out[1] => logged_in /\ username = v_in[1])
    /\ [][(last'.op = "login" /\ admin_users # {}) =>
            /\ admin_users' = admin_users /\ app_settings' = app_settings
            /\ members' = members /\ payments' = payments
            /\ member_seq' = member_seq /\ payment_seq' = payment_seq]_vars

LoginOtherPasswordReached ==
    /\ last.op = "login" /\ last.ok
    /\ v_in[2] # stored_password

\* C8: when validate_member_inputs returns errors for a member save or a
\* renewal, the operation writes nothing: after the run the members table
\* is the table the page's refresh pass produced before the form was
\* handled, and the payments table and both id sequences are unchanged.
ValidationFailureWritesNothing ==
    [][(last'.op \in {"member_save", "renew"} /\ ~last'.ok) =>
          /\ members' = refresh_member_statuses(members, today)
          /\ payments' = payments
          /\ member_seq' = member_seq
          /\ payment_seq' = payment_seq]_vars

RenewRejectedReached ==
    /\ last.op = "renew" /\ ~last.ok
    /\ members # {}

ValidateCalled == Len(v_out) = 1 /\ last.op = "validate"

\* C9: validate_member_inputs reports an error whenever the price parses as
\* a negative number.
NegativePriceRejected ==
    (ValidateCalled /\ ~v_out[1].raised /\ ParseFloat(v_in[3]).ok /\ ParseFloat(v_in[3]).val < 0)
        => v_out[1].errors # <<>>

\* C10: with valid name, phone and price, validate_member_inputs returns
\* exactly the ordering error when both dates parse and end_date <=
\* start_date, exactly the date-format error when a date is malformed, and
\* no error when both parse and end_date > start_date.
DateErrorsExact ==
    (/\ ValidateCalled
     /\ v_in[1] # None /\ Strip(v_in[1]) # <<>>
     /\ v_in[2] # None /\ Strip(v_in[2]) # <<>>
     /\ ParseFloat(v_in[3]).ok)
    =>  /\ ~v_out[1].raised
        /\ (IsDate(v_in[4]) /\ IsDate(v_in[5]) /\ ~DateLT(v_in[4], v_in[5]))
              => v_out[1].errors = <<ErrOrder>>
        /\ (~IsDate(v_in[4]) \/ ~IsDate(v_in[5]))
              => v_out[1].errors = <<ErrDates>>
        /\ (IsDate(v_in[4]) /\ IsDate(v_in[5]) /\ DateLT(v_in[4], v_in[5]))
              => v_out[1].errors = <<>>

EqualDatesReached ==
    /\ ValidateCalled
    /\ IsDate(v_in[4]) /\ v_in[4] = v_in[5]
    /\ v_out[1].errors = <<ErrOrder>>

\* C11: validate_member_inputs never raises, whatever its inputs (a missing
\* name, phone, price or date included): every failure is an entry of the
\* returned list.
ValidateNeverRaises ==
    ValidateCalled => ~v_out[1].raised

\* C12: the renewal form's default start date is the day after the current
\* end_date when end_date >= today (end_date = today included), and today
\* when end_date < today.
DefaultStartRule ==
    (last.op = "default_start") =>
        LET current_end == v_in[2]
            now == v_in[3]
            out == v_out[1].value
        IN  /\ ~v_out[1].raised
            /\ IsDate(out)
            /\ toordinal(current_end) >= toordinal(now)
                  => toordinal(out) = toordinal(current_end) + 1
            /\ toordinal(current_end) < toordinal(now) => out = now

DefaultStartOnLastDayReached ==
    /\ last.op = "default_start"
    /\ v_in[2] = v_in[3]
    /\ toordinal(v_out[1].value) = toordinal(v_in[3]) + 1

\* the months the claim gives each plan type
ClaimedMonths(plan_type) ==
    IF plan_type = "3 months" THEN 3
    ELSE IF plan_type = "6 months" THEN 6
    ELSE IF plan_type = "12 months" THEN 12
    ELSE 1

\* the date k calendar months after start's month, day clamped to that month
MonthsAfter(start, k) ==
    LET t == 12 * start[1] + (start[2] - 1) + k
        y == t \div 12
        m == (t % 12) + 1
    IN  <<y, m, IF start[3] < DaysInMonth(y, m) THEN start[3] ELSE DaysInMonth(y, m)>>

PaymentsImmutable ==
    [][\A p \in payments :
          \/ p \in payments'
          \/ /\ last'.op = "delete"
             /\ last'.id = p.member_id
             /\ \A q \in payments' : q.id # p.id]_vars

\* a renewal recorded a payment beside an earlier one, which is still there
PaymentKeptReached ==
    /\ last.op = "renew" /\ last.ok
    /\ \E p \in payments, q \in payments : p.id < q.id /\ q.date = today

\* C15: a renewal is two committed statements, member update first and
\* payment insert second.  When the payment insert fails, or the run stops
\* between the two, the member row has the new plan_type, price,
\* start_date, end_date and status and no payment row was added; when the
\* member update fails nothing is written; and a payment row added by a
\* renewal always comes with the updated member row.
RenewalUpdatesMemberFirst ==
    [][/\ (last'.op = "renew_fault" /\ v_in'[5] = "insert") =>
             LET m == Row(members', v_in'[1])
             IN  /\ m.plan_type = v_in'[2]
                 /\ m.plan_price = v_in'[3]
                 /\ m.start_date = v_in'[4]
                 /\ m.end_date = calc_end_date(v_in'[4], v_in'[2])
                 /\ m.status = infer_status(m.end_date, today)
                 /\ payments' = payments
                 /\ payment_seq' = payment_seq
       /\ (last'.op = "renew_fault" /\ v_in'[5] = "update") =>
             /\ members' = refresh_member_statuses(members, today)
             /\ payments' = payments
             /\ payment_seq' = payment_seq
       /\ (last'.op \in {"renew", "renew_fault"}) =>
             \A q \in payments' \ payments :
                 LET m == Row(members', q.member_id)
                 IN  /\ last'.id = q.member_id
                     /\ m.plan_price = q.amount
                     /\ m.end_date = calc_end_date(m.start_date, m.plan_type)]_vars

RenewalWithoutPaymentReached ==
    /\ last.op = "renew_fault" /\ last.ok /\ last.id = 1
    /\ v_in[5] = "insert"
    /\ Row(members, 1).plan_type = "12 months"
    /\ payments = {}

\* C16: once an admin exists and the forced-change flag is cleared, no run
\* sets the flag again, no run adds a second admin row, and the stored
\* password hash changes only in a run that accepts a new password.
FlagStaysCleared ==
    [][(admin_users # {} /\ ~is_force_password_change(app_settings)) =>
          /\ ~is_force_password_change(app_settings')
          /\ Cardinality(admin_users') = 1
          /\ \/ admin_users' = admin_users
             \/ last'.op = "change_password" /\ last'.ok]_vars

\* init_db has run again, on the login screen, after the password was
\* changed to another one and the administrator logged out
InitAfterChangeReached ==
    /\ admin_users # {}
    /\ ~is_force_password_change(app_settings)
    /\ stored_password = LongA
    /\ last.op = "login_screen"
    /\ \A a \in admin_users : a.password_hash[2] = Prefix(LongA)

====
